---- MODULE Spec2Model ----
(***************************************************************************)
(* Model of node-graylogger: the RabbitMQ connection manager               *)
(* (src/src/rabbitmq-lib.js) and the Logger dispatcher built on top of it  *)
(* (src/src/logger.js).                                                    *)
(*                                                                         *)
(* JavaScript runs every callback to completion, so one action is one      *)
(* synchronous stretch of code: from a call, an event or a promise         *)
(* settlement up to the next await.  The amqplib connection, its confirm   *)
(* channel, the broker and the HTTP endpoint are the environment: their    *)
(* outcomes are chosen by the environment actions and by the variable      *)
(* broker.                                                                 *)
(*                                                                         *)
(* Every connect() invocation and every connection keeps its own record,   *)
(* so a state also tells what has happened so far.                         *)
(***************************************************************************)
EXTENDS Integers, FiniteSets, Sequences, TLC

\* ------------------------------------------------------------------ bounds
MaxLoops == 3       \* connect() invocations that are followed
MaxConns == 2       \* broker connections that are opened (the broker's limit)
MaxAttempt == 2     \* value at which a loop's attempt counter saturates
MaxMsgs == 1        \* sendMessage() / report() calls that are followed

Loops == 1..MaxLoops
Conns == 1..MaxConns
Msgs == 1..MaxMsgs

VARIABLES
    transport,      \* Logger: config.transport after the constructor
    isConnected,    \* RabbitMQ.isConnected
    connection,     \* RabbitMQ.connection: 0 is null, else a connection id
    channel,        \* RabbitMQ.channel: 0 is null, else the id of the connection that owns it
    loops,          \* one record per connect() invocation
    conns,          \* the amqplib connections: status, channel status, registered observers
    broker,         \* environment: "up" accepts connections and assertions, "down" fails them
    closePc,        \* the running close() invocation, or how the last one ended
    closeRef,       \* the connection whose channel, or which itself, close() is closing
    msgs,           \* the followed sendMessage() / report() calls and their promises
    initSt,         \* the promise returned by Logger.init()
    initLoop,       \* the connect() invocation made by init(), 0 if none
    initLogged,     \* init() wrote its timeout to console.error
    call            \* the last synchronous Logger call that is followed: its input, its effects

vars == <<transport, isConnected, connection, channel, loops, conns, broker,
          closePc, closeRef, msgs, initSt, initLoop, initLogged, call>>

cfgVars == <<transport, call>>

mgrVars == <<isConnected, connection, channel, loops, conns>>
closeVars == <<closePc, closeRef>>
initVars == <<initSt, initLoop, initLogged>>

\* ------------------------------------------------------------------ helpers
Min(a, b) == IF a < b THEN a ELSE b

Lowest(S) == CHOOSE x \in S : \A y \in S : x <= y

\* pc of a connect() invocation: "unused" (not called yet), "noop" (returned at
\* the guard), "connecting" / "channel" / "asserting" (awaiting amqp.connect,
\* createConfirmChannel, assertQueue), "waiting" (awaiting the retry delay),
\* "done" (returned from the loop).
\* attempt is the loop's variable; tries and fails count its amqp.connect()
\* calls and the errors it caught; c is the connection it is working on.
UnusedLoop == [pc |-> "unused", attempt |-> 0, tries |-> 0, fails |-> 0, c |-> 0]

NoopLoop == [UnusedLoop EXCEPT !.pc = "noop"]

DoneLoop == [UnusedLoop EXCEPT !.pc = "done"]

FirstTry == [UnusedLoop EXCEPT !.pc = "connecting", !.tries = 1]

FreeConn == [st |-> "free", ch |-> "none", obs |-> 0]

\* op: the call; st: the promise of the transport's send; ch: the channel an
\* unconfirmed publish is on; rep: the promise of report(); fb: entries written
\* to the fallback sink (console.error) by report(); sent: calls of the
\* transport's send made for it.
NoMsg == [op |-> "none", st |-> "none", ch |-> 0, rep |-> "none", fb |-> 0, sent |-> 0]

\* No Logger call is followed yet.
NoCall == [op |-> "none"]

RunningPc == {"connecting", "channel", "asserting", "waiting"}

ActiveLoops == {l \in Loops : loops[l].pc \in RunningPc}

UnusedLoops == {l \in Loops : loops[l].pc = "unused"}

FreeConns == {c \in Conns : conns[c].st = "free"}

\* The broker takes a new connection: it is up and below its connection limit.
BrokerAccepts == broker = "up" /\ FreeConns # {}

ChannelOpen(c) == c # 0 /\ conns[c].st = "open" /\ conns[c].ch = "open"

\* k more connect() invocations that pass the guard: each enters the loop with
\* attempt = 0 and calls amqp.connect() before it yields.
RECURSIVE StartLoops(_, _)
StartLoops(ls, k) ==
    IF k = 0 THEN ls
    ELSE LET l == Lowest({x \in Loops : ls[x].pc = "unused"})
         IN StartLoops([ls EXCEPT ![l] = FirstTry], k - 1)

\* The catch block of connect(): log the error and start the retry delay.
Caught(r) ==
    [r EXCEPT !.pc = "waiting", !.fails = Min(@ + 1, MaxAttempt + 1), !.c = 0]

\* report() with a catch block that passes the failure on to the caller.
ReportCaughtRethrows(m) == [m EXCEPT !.rep = "rejected", !.fb = @ + 1]

\* report() with a catch block that swallows the failure without a trace.
ReportCaughtSilent(m) == [m EXCEPT !.rep = "resolved"]

\* The catch block of report(): one entry in the fallback sink, then resolve().
ReportCaught(m) == [m EXCEPT !.rep = "resolved", !.fb = @ + 1]

\* The sendToQueue callback gets an error: sendMessage rejects; a report()
\* waiting on it runs its catch block.
SendRejected(m) ==
    LET r == [m EXCEPT !.st = "rejected", !.ch = 0]
    IN IF m.op = "report" THEN ReportCaught(r) ELSE r

\* The sendToQueue callback gets no error: sendMessage resolves; a report()
\* waiting on it calls resolve().
SendResolved(m) ==
    [m EXCEPT !.st = "resolved", !.ch = 0,
              !.rep = IF m.op = "report" THEN "resolved" ELSE @]

\* Unconfirmed publishes of a channel that closes are failed by the channel.
RejectOn(ms, c) ==
    [i \in Msgs |->
        IF ms[i].st = "pending" /\ ms[i].ch = c
        THEN SendRejected(ms[i])
        ELSE ms[i]]

\* A connect() invocation returns: the promise init() waits on is fulfilled.
InitAfterReturn(l) ==
    IF initLoop = l /\ initSt = "pending" THEN "resolved" ELSE initSt

TypeOK ==
    /\ transport \in {"http", "amqp", "console"}
    /\ isConnected \in BOOLEAN
    /\ connection \in 0..MaxConns
    /\ channel \in 0..MaxConns
    /\ \A l \in Loops :
          /\ loops[l].pc \in RunningPc \cup {"unused", "noop", "done"}
          /\ loops[l].attempt \in 0..MaxAttempt
          /\ loops[l].tries \in 0..(MaxAttempt + 1)
          /\ loops[l].fails \in 0..(MaxAttempt + 1)
          /\ loops[l].c \in 0..MaxConns
    /\ \A c \in Conns :
          /\ conns[c].st \in {"free", "open", "closing", "closed"}
          /\ conns[c].ch \in {"none", "open", "closing", "closed"}
          /\ conns[c].obs \in 0..MaxLoops
    /\ broker \in {"up", "down"}
    /\ closePc \in {"idle", "channel", "connection", "resolved", "rejected"}
    /\ closeRef \in 0..MaxConns
    /\ \A i \in Msgs :
          /\ msgs[i].op \in {"none", "sendMessage", "report"}
          /\ msgs[i].st \in {"none", "pending", "resolved", "rejected"}
          /\ msgs[i].rep \in {"none", "pending", "resolved", "rejected", "threw"}
          /\ msgs[i].ch \in 0..MaxConns
          /\ msgs[i].fb \in 0..2
          /\ msgs[i].sent \in 0..2
    /\ initSt \in {"none", "pending", "resolved", "rejected"}
    /\ initLoop \in 0..MaxLoops
    /\ initLogged \in BOOLEAN
    /\ call.op \in {"none", "constructor", "getLogObject", "report", "error"}

\* ------------------------------------------------------------------ RabbitMQ

\* constructor: no connection, no channel, not connected.
MgrInit ==
    /\ isConnected = FALSE
    /\ connection = 0
    /\ channel = 0
    /\ loops = [l \in Loops |-> UnusedLoop]
    /\ conns = [c \in Conns |-> FreeConn]
    /\ broker \in {"up", "down"}
    /\ closePc = "idle"
    /\ closeRef = 0
    /\ msgs = [i \in Msgs |-> NoMsg]

\* connect() without the guard on isConnected: every call enters the loop.
ConnectCallNoGuard(l) ==
    /\ l = Lowest(UnusedLoops)
    /\ loops' = [loops EXCEPT ![l] = FirstTry]
    /\ UNCHANGED <<isConnected, connection, channel, conns>>

\* connect(), up to its first await, as invocation l: return when connected,
\* else enter the loop and call amqp.connect().  The guard reads isConnected
\* only.
ConnectCall(l) ==
    /\ l = Lowest(UnusedLoops)
    /\ loops' = [loops EXCEPT ![l] = IF isConnected THEN NoopLoop ELSE FirstTry]
    /\ UNCHANGED <<isConnected, connection, channel, conns>>

\* connect() called by the user of the manager.
connect ==
    /\ \E l \in UnusedLoops : ConnectCall(l)
    /\ UNCHANGED <<cfgVars, broker, closeVars, msgs, initVars>>

\* amqp.connect() resolves: this.connection is assigned and
\* createConfirmChannel() is called on it.
AmqpConnectOk(l) ==
    /\ loops[l].pc = "connecting"
    /\ BrokerAccepts
    /\ LET c == Lowest(FreeConns) IN
          /\ conns' = [conns EXCEPT ![c] = [st |-> "open", ch |-> "none", obs |-> 0]]
          /\ connection' = c
          /\ loops' = [loops EXCEPT ![l].pc = "channel", ![l].c = c]
    /\ UNCHANGED <<cfgVars, isConnected, channel, broker, closeVars, msgs, initVars>>

\* amqp.connect() rejects: the catch block logs and starts the delay.
AmqpConnectFail(l) ==
    /\ loops[l].pc = "connecting"
    /\ ~BrokerAccepts
    /\ loops' = [loops EXCEPT ![l] = Caught(@)]
    /\ UNCHANGED <<cfgVars, isConnected, connection, channel, conns, broker,
                   closeVars, msgs, initVars>>

\* createConfirmChannel() resolves: this.channel is assigned and assertQueue()
\* is called on it.
CreateChannelOk(l) ==
    /\ loops[l].pc = "channel"
    /\ broker = "up"
    /\ conns[loops[l].c].st = "open"
    /\ conns' = [conns EXCEPT ![loops[l].c].ch = "open"]
    /\ channel' = loops[l].c
    /\ loops' = [loops EXCEPT ![l].pc = "asserting"]
    /\ UNCHANGED <<cfgVars, isConnected, connection, broker, closeVars, msgs, initVars>>

\* createConfirmChannel() rejects.
CreateChannelFail(l) ==
    /\ loops[l].pc = "channel"
    /\ broker = "down" \/ conns[loops[l].c].st # "open"
    /\ loops' = [loops EXCEPT ![l] = Caught(@)]
    /\ UNCHANGED <<cfgVars, isConnected, connection, channel, conns, broker,
                   closeVars, msgs, initVars>>

\* assertQueue() resolves: isConnected is set, the two observers are registered
\* on whatever this.connection is now, and connect() returns.
AssertQueueOk(l) ==
    /\ loops[l].pc = "asserting"
    /\ broker = "up"
    /\ ChannelOpen(loops[l].c)
    /\ isConnected' = TRUE
    /\ conns' = [conns EXCEPT ![connection].obs = @ + 1]
    /\ loops' = [loops EXCEPT ![l] = DoneLoop]
    /\ initSt' = InitAfterReturn(l)
    /\ UNCHANGED <<cfgVars, connection, channel, broker, closeVars, msgs,
                   initLoop, initLogged>>

\* assertQueue() rejects and the loop tries again at once, without the delay.
AssertQueueFailNoDelay(l) ==
    /\ loops[l].pc = "asserting"
    /\ broker = "down" \/ ~ChannelOpen(loops[l].c)
    /\ loops' = [loops EXCEPT ![l].pc = "connecting",
                              ![l].fails = Min(@ + 1, MaxAttempt + 1),
                              ![l].tries = Min(@ + 1, MaxAttempt + 1),
                              ![l].c = 0]
    /\ UNCHANGED <<cfgVars, isConnected, connection, channel, conns, broker, closeVars,
                   msgs, initVars>>

\* assertQueue() rejects: the channel is closed by then (a failed declaration is
\* a channel-level error), the connection stays as it is.
AssertQueueFail(l) ==
    /\ loops[l].pc = "asserting"
    /\ broker = "down" \/ ~ChannelOpen(loops[l].c)
    /\ conns' = [conns EXCEPT ![loops[l].c].ch = IF @ = "open" THEN "closed" ELSE @]
    /\ msgs' = IF conns[loops[l].c].ch = "open" THEN RejectOn(msgs, loops[l].c) ELSE msgs
    /\ loops' = [loops EXCEPT ![l] = Caught(@)]
    /\ UNCHANGED <<cfgVars, isConnected, connection, channel, broker, closeVars,
                   initVars>>

\* A loop with a maximum attempt count: after MaxAttempt delays it gives up.
RetryTimerGivesUp(l) ==
    /\ loops[l].pc = "waiting"
    /\ IF isConnected \/ loops[l].attempt + 1 >= MaxAttempt
       THEN /\ loops' = [loops EXCEPT ![l] = DoneLoop]
            /\ initSt' = InitAfterReturn(l)
       ELSE /\ loops' = [loops EXCEPT ![l].pc = "connecting",
                                      ![l].attempt = Min(@ + 1, MaxAttempt),
                                      ![l].tries = Min(@ + 1, MaxAttempt + 1)]
            /\ UNCHANGED initSt
    /\ UNCHANGED <<cfgVars, isConnected, connection, channel, conns, broker,
                   closeVars, msgs, initLoop, initLogged>>

\* The delay ends: attempt++, the while condition is read again, and either
\* connect() returns or the next amqp.connect() is called.  attempt is only
\* printed, so it is counted up to MaxAttempt and stays there.
RetryTimer(l) ==
    /\ loops[l].pc = "waiting"
    /\ IF isConnected
       THEN /\ loops' = [loops EXCEPT ![l] = DoneLoop]
            /\ initSt' = InitAfterReturn(l)
       ELSE /\ loops' = [loops EXCEPT ![l].pc = "connecting",
                                      ![l].attempt = Min(@ + 1, MaxAttempt),
                                      ![l].tries = Min(@ + 1, MaxAttempt + 1)]
            /\ UNCHANGED initSt
    /\ UNCHANGED <<cfgVars, isConnected, connection, channel, conns, broker,
                   closeVars, msgs, initLoop, initLogged>>

\* Connection c ends and emits n events to each registered observer pair: every
\* observer that runs sets isConnected to false and calls connect(), which then
\* enters the loop.
Emit(c, n) ==
    /\ Cardinality(UnusedLoops) >= n * conns[c].obs
    /\ conns' = [conns EXCEPT ![c] = [st |-> "closed",
                                      ch |-> IF @.ch = "none" THEN "none" ELSE "closed",
                                      obs |-> 0]]
    /\ msgs' = RejectOn(msgs, c)
    /\ loops' = StartLoops(loops, n * conns[c].obs)
    /\ isConnected' = IF conns[c].obs > 0 THEN FALSE ELSE isConnected

\* The connection fails (socket error, fatal close by the broker): amqplib emits
\* 'error' and then 'close' in the same turn, so both observers run.
OnError(c) ==
    /\ conns[c].st = "open"
    /\ broker = "down"
    /\ Emit(c, 2)
    /\ UNCHANGED <<cfgVars, connection, channel, broker, closeVars, initVars>>

\* The broker ends the connection gracefully: amqplib emits 'close' only.
OnClose(c) ==
    /\ conns[c].st = "open"
    /\ broker = "down"
    /\ Emit(c, 1)
    /\ UNCHANGED <<cfgVars, connection, channel, broker, closeVars, initVars>>

\* sendMessage() on a plain channel: the publish is written and the promise
\* resolves without waiting for the broker.
SendCallNoConfirm(i, op) ==
    /\ i = Lowest({j \in Msgs : msgs[j].op = "none"})
    /\ LET m == [NoMsg EXCEPT !.op = op, !.sent = 1,
                              !.rep = IF op = "report" THEN "pending" ELSE "none"]
       IN msgs' = [msgs EXCEPT ![i] =
              IF ChannelOpen(channel) THEN SendResolved(m) ELSE SendRejected(m)]

\* sendMessage(message) as call i: the promise executor calls
\* this.channel.sendToQueue().  With no channel that is a TypeError, on a
\* channel that is closed or closing amqplib throws; both reject the promise.
\* Otherwise the message is on its way and the promise waits for the
\* confirmation callback.
SendCall(i, op) ==
    /\ i = Lowest({j \in Msgs : msgs[j].op = "none"})
    /\ LET m == [NoMsg EXCEPT !.op = op, !.sent = 1,
                              !.rep = IF op = "report" THEN "pending" ELSE "none"]
       IN msgs' = [msgs EXCEPT ![i] =
              IF ChannelOpen(channel)
              THEN [m EXCEPT !.st = "pending", !.ch = channel]
              ELSE SendRejected(m)]

\* sendMessage() called by the user of the manager.
sendMessage(i) ==
    /\ msgs[i].op = "none"
    /\ SendCall(i, "sendMessage")
    /\ UNCHANGED <<cfgVars, mgrVars, broker, closeVars, initVars>>

\* The broker confirms the publish: callback without error, resolve().
Ack(i) ==
    /\ msgs[i].st = "pending"
    /\ msgs[i].ch # 0
    /\ msgs' = [msgs EXCEPT ![i] = SendResolved(@)]
    /\ UNCHANGED <<cfgVars, mgrVars, broker, closeVars, initVars>>

\* The broker refuses the publish: callback with an error, reject(err).
Nack(i) ==
    /\ msgs[i].st = "pending"
    /\ msgs[i].ch # 0
    /\ msgs' = [msgs EXCEPT ![i] = SendRejected(@)]
    /\ UNCHANGED <<cfgVars, mgrVars, broker, closeVars, initVars>>

\* this.connection.close() is called: amqplib throws when the connection is not
\* open, which rejects close(); else the closing handshake starts.
CloseConnection(cs) ==
    IF conns[connection].st = "open"
    THEN /\ conns' = [cs EXCEPT ![connection].st = "closing"]
         /\ closePc' = "connection"
         /\ closeRef' = connection
    ELSE /\ conns' = cs
         /\ closePc' = "rejected"
         /\ closeRef' = 0

\* close(), up to its first await: isConnected is cleared, then the channel (if
\* any) or else the connection (if any) is asked to close.  amqplib throws when
\* the channel is not open, which rejects close().
close ==
    /\ closePc \in {"idle", "resolved", "rejected"}
    /\ isConnected' = FALSE
    /\ IF channel # 0
       THEN IF ChannelOpen(channel)
            THEN /\ conns' = [conns EXCEPT ![channel].ch = "closing"]
                 /\ closePc' = "channel"
                 /\ closeRef' = channel
            ELSE /\ closePc' = "rejected"
                 /\ UNCHANGED <<conns, closeRef>>
       ELSE IF connection # 0
            THEN CloseConnection(conns)
            ELSE /\ closePc' = "resolved"
                 /\ UNCHANGED <<conns, closeRef>>
    /\ UNCHANGED <<cfgVars, connection, channel, loops, broker, msgs, initVars>>

\* channel.close() settles.  Resolved: this.connection.close() is called next.
\* Rejected (the connection ended meanwhile): close() rejects.
ChannelCloseSettles ==
    /\ closePc = "channel"
    /\ IF conns[closeRef].st = "open" /\ conns[closeRef].ch = "closing"
       THEN /\ CloseConnection([conns EXCEPT ![closeRef].ch = "closed"])
            /\ msgs' = RejectOn(msgs, closeRef)
       ELSE /\ closePc' = "rejected"
            /\ closeRef' = 0
            /\ UNCHANGED <<conns, msgs>>
    /\ UNCHANGED <<cfgVars, isConnected, connection, channel, loops, broker, initVars>>

\* connection.close() resolves: the connection emits 'close' (its observers
\* run), then close() logs and returns.
ConnectionCloseOk ==
    /\ closePc = "connection"
    /\ Emit(closeRef, 1)
    /\ closePc' = "resolved"
    /\ closeRef' = 0
    /\ UNCHANGED <<cfgVars, connection, channel, broker, initVars>>

BrokerUp ==
    /\ broker = "down"
    /\ broker' = "up"
    /\ UNCHANGED <<cfgVars, mgrVars, closeVars, msgs, initVars>>

BrokerDown ==
    /\ broker = "up"
    /\ broker' = "down"
    /\ UNCHANGED <<cfgVars, mgrVars, closeVars, msgs, initVars>>

\* ------------------------------------------------------------------ Logger

\* init(ms): with the amqp transport, connect() is called and its promise is
\* given a timeout; with the other transports there is no manager and the
\* returned promise is resolved.
init ==
    /\ initSt = "none"
    /\ IF transport = "amqp"
       THEN \E l \in UnusedLoops :
               /\ ConnectCall(l)
               /\ initLoop' = l
               /\ initSt' = IF isConnected THEN "resolved" ELSE "pending"
       ELSE /\ initSt' = "resolved"
            /\ UNCHANGED <<mgrVars, initLoop>>
    /\ UNCHANGED <<cfgVars, broker, closeVars, msgs, initLogged>>

\* init() without its catch: the TimeoutError rejects the returned promise.
InitTimeoutRejects ==
    /\ initSt = "pending"
    /\ initSt' = "rejected"
    /\ UNCHANGED <<cfgVars, mgrVars, broker, closeVars, msgs, initLoop, initLogged>>

\* The timeout of init() fires before connect() has returned: the TimeoutError
\* is passed to console.error and the promise resolves.  The connect()
\* invocation is not touched.
InitTimeout ==
    /\ initSt = "pending"
    /\ initSt' = "resolved"
    /\ initLogged' = TRUE
    /\ UNCHANGED <<cfgVars, mgrVars, broker, closeVars, msgs, initLoop>>

\* report() as call i: the record is built and handed to sendLog inside the
\* try block.  console: written at once, resolve().  http: the POST is in
\* flight.  amqp: sendMessage().
report(i) ==
    /\ msgs[i].op = "none"
    /\ IF transport = "amqp"
       THEN SendCall(i, "report")
       ELSE /\ i = Lowest({j \in Msgs : msgs[j].op = "none"})
            /\ msgs' = [msgs EXCEPT ![i] =
                  IF transport = "console"
                  THEN [NoMsg EXCEPT !.op = "report", !.sent = 1, !.st = "resolved",
                                     !.rep = "resolved"]
                  ELSE [NoMsg EXCEPT !.op = "report", !.sent = 1, !.st = "pending",
                                     !.rep = "pending"]]
    /\ UNCHANGED <<cfgVars, mgrVars, broker, closeVars, initVars>>

\* The POST of an http report succeeds: resolve().
HttpOk(i) ==
    /\ transport = "http"
    /\ msgs[i].st = "pending"
    /\ msgs' = [msgs EXCEPT ![i] = SendResolved(@)]
    /\ UNCHANGED <<cfgVars, mgrVars, broker, closeVars, initVars>>

\* The POST of an http report fails (network error, error status, timeout):
\* the catch block runs.
HttpFail(i) ==
    /\ transport = "http"
    /\ msgs[i].st = "pending"
    /\ msgs' = [msgs EXCEPT ![i] = SendRejected(@)]
    /\ UNCHANGED <<cfgVars, mgrVars, broker, closeVars, initVars>>

\* ------------------------------------------------------------------ Logger: records and classification

\* this.logLevels.
logLevels ==
    [EMERGENCY |-> 0, ALERT |-> 1, CRITICAL |-> 2, ERROR |-> 3,
     WARNING |-> 4, NOTICE |-> 5, INFORMATIONAL |-> 6, DEBUG |-> 7]

\* A level value as JavaScript sees it: undefined, or a number.
Undefined == [t |-> "undefined", n |-> 0]

Num(k) == [t |-> "number", n |-> k]

\* The level values a caller of report() may pass: none, every severity of the
\* scale, and one number outside the scale.
LevelInputs == {Undefined} \cup {Num(k) : k \in 0..8}

\* The level values an error-like object may carry: none, both ends of the
\* scale, and one number outside the scale.
ErrorLevels == {Undefined, Num(0), Num(7), Num(8)}

\* A default parameter `level = d`: the default replaces undefined only.
DefaultParam(l, d) == IF l = Undefined THEN Num(d) ELSE l

\* The error-like values passed to error(): null, undefined, or an object
\* with its errorType ("none": no such property; "bogus": a string that is no
\* key of errorReporters; "toString": a string that names a member of
\* Object.prototype), its request and mainRequest (present or not), its socket
\* ("none": absent, "bare": without request.headers, "ok") and its level.
ErrorTypes == {"none", "api", "socket", "axios", "unexpectedApiErr", "bogus", "toString"}

ErrorInputs ==
    {[val |-> v, errorType |-> "none", request |-> FALSE, mainRequest |-> FALSE,
      socket |-> "none", level |-> Undefined] : v \in {"null", "undefined"}}
    \cup [val : {"object"}, errorType : ErrorTypes, request : BOOLEAN,
          mainRequest : BOOLEAN, socket : {"none", "bare", "ok"}, level : ErrorLevels]

\* What a reporter hands to report(): which error it describes ("original",
\* or the "failure" caught by error()), the reporter that built it, and the
\* severity after report()'s default parameter.
Reported(of, path, l) == [of |-> of, path |-> path, level |-> DefaultParam(l, logLevels.ALERT)]

\* reportGeneralError(error, data): level defaults to ERROR.
reportGeneralError(of) == Reported(of, "generic", Num(logLevels.ERROR))

Returned(rs) == [threw |-> FALSE, reports |-> rs]

Thrown == [threw |-> TRUE, reports |-> <<>>]

\* The try block of error(): this.errorReporters[error.errorType](error, data).
\* Reading a property of null or undefined throws; a missing errorType selects
\* the key "undefined"; a string that is no key gives undefined, and calling
\* it throws; a member of Object.prototype is called and returns.  The
\* context reporters read their request or socket before they call report(),
\* and throw when it is missing.
Classify(e) ==
    IF e.val # "object" THEN Thrown
    ELSE CASE e.errorType = "none" -> Returned(<<reportGeneralError("original")>>)
           [] e.errorType = "api" ->
                 IF e.request THEN Returned(<<Reported("original", "api", e.level)>>)
                 ELSE Thrown
           [] e.errorType = "socket" ->
                 IF e.socket = "ok" THEN Returned(<<Reported("original", "socket", e.level)>>)
                 ELSE Thrown
           [] e.errorType = "axios" ->
                 IF e.mainRequest
                 THEN Returned(<<Reported("original", "axios", Num(logLevels.ERROR))>>)
                 ELSE Thrown
           [] e.errorType = "unexpectedApiErr" ->
                 IF e.request
                 THEN Returned(<<Reported("original", "unexpectedApi", Num(logLevels.ALERT))>>)
                 ELSE Thrown
           [] e.errorType = "bogus" -> Thrown
           [] e.errorType = "toString" -> Returned(<<>>)

\* The catch block of error(): reportGeneralError(error) calls
\* error.toString(), which throws for null and undefined; else the original
\* error and the caught one are reported.
ErrorCaught(e) ==
    IF e.val # "object" THEN Thrown
    ELSE Returned(<<reportGeneralError("original"), reportGeneralError("failure")>>)

\* error(error, data) as a whole.
ErrorResult(e) == IF Classify(e).threw THEN ErrorCaught(e) ELSE Classify(e)

\* error() is called with e.
error ==
    /\ \E e \in ErrorInputs : call' = [op |-> "error", in |-> e, out |-> ErrorResult(e)]
    /\ UNCHANGED <<transport, mgrVars, broker, closeVars, msgs, initVars>>

\* A string is a sequence of characters; a character is a letter in lower case
\* (or a sign that has no case) and whether it is written in upper case.
Chars(w, up) == [i \in 1..Len(w) |-> [l |-> w[i], up |-> up[i]]]

Lower(w) == Chars(w, [i \in 1..Len(w) |-> FALSE])

\* The words of the list in the constructor, and their values in config.
ValidTransports == {<<"h", "t", "t", "p">>, <<"a", "m", "q", "p">>,
                    <<"c", "o", "n", "s", "o", "l", "e">>}

RECURSIVE Join(_)
Join(w) == IF w = <<>> THEN "" ELSE Head(w) \o Join(Tail(w))

\* Every way of writing w in upper and lower case.
CaseVariants(w) == {Chars(w, up) : up \in [1..Len(w) -> BOOLEAN]}

\* config.transport as given: missing, or a string: a valid word in any
\* letter case, or another string (empty, a valid word with a space before it
\* or with a letter missing, an unknown word in any letter case).
TransportInputs ==
    {[t |-> "undefined", s |-> <<>>]}
    \cup {[t |-> "string", s |-> x] :
            x \in UNION {CaseVariants(w) : w \in ValidTransports}
                  \cup CaseVariants(<<"f", "i", "l", "e">>)
                  \cup CaseVariants(<<" ", "h", "t", "t", "p">>)
                  \cup CaseVariants(<<"h", "t", "p">>)
                  \cup {<<>>}}

\* String(value): the string itself; "undefined" for a missing value.
String(v) ==
    IF v.t = "undefined" THEN Lower(<<"u", "n", "d", "e", "f", "i", "n", "e", "d">>)
    ELSE v.s

\* toLowerCase() that leaves the string as it is.
ToLowerCaseKeepsCase(x) == x

\* String.prototype.toLowerCase().
ToLowerCase(x) == [i \in DOMAIN x |-> [x[i] EXCEPT !.up = FALSE]]

\* The constructor, lines 8 to 12: normalise, test against the list, and fall
\* back to console with one console.warn.
Normalized(v) ==
    LET t == ToLowerCase(String(v))
    IN IF t \in {Lower(w) : w \in ValidTransports}
       THEN [transport |-> Join([i \in DOMAIN t |-> t[i].l]), warned |-> 0]
       ELSE [transport |-> "console", warned |-> 1]

\* new Logger(config): a Logger is constructed from config; its manager, if
\* any, is in its initial state.
constructor ==
    /\ \E v \in TransportInputs :
          /\ transport' = Normalized(v).transport
          /\ call' = [op |-> "constructor", in |-> v,
                      out |-> [threw |-> FALSE, warned |-> Normalized(v).warned]]
    /\ UNCHANGED <<mgrVars, broker, closeVars, msgs, initVars>>

\* The fixed fields of a record, and the keys of extra data that are tried.
FixedFields == {"version", "host", "timestamp", "short_message", "full_message",
                "level", "_env", "_localeDate", "_app_name"}

DataKeys == {"env", "localeDate", "app_name", "level", "host", "userId"}

\* Logger.getLogObject(shortMessage, fullMessage, data, level, config) for
\* data with the keys ks: the fixed fields are set first, then every key of
\* data is assigned under '_' + key.
getLogObject(ks) ==
    [f \in FixedFields \cup {"_" \o k : k \in ks} |->
        IF \E k \in ks : "_" \o k = f
        THEN [from |-> "data", key |-> CHOOSE k \in ks : "_" \o k = f]
        ELSE [from |-> "fixed", key |-> f]]

\* getLogObject() is called with some extra data.
BuildRecord ==
    /\ \E ks \in SUBSET DataKeys :
          call' = [op |-> "getLogObject", in |-> ks, out |-> getLogObject(ks)]
    /\ UNCHANGED <<transport, mgrVars, broker, closeVars, msgs, initVars>>

\* A console sendLog that writes every record to console.error.
SendLogAllToError(l) == [info |-> 0, error |-> 1]

\* sendLog of the console transport: console.info for INFORMATIONAL,
\* console.error for every other level.
ConsoleSendLog(l) ==
    IF l = Num(logLevels.INFORMATIONAL)
    THEN [info |-> 1, error |-> 0]
    ELSE [info |-> 0, error |-> 1]

\* report(shortMessage, fullMessage, data, level) over the console transport:
\* sendLog returns at once, and report() resolves without its catch block.
ConsoleReport ==
    /\ transport = "console"
    /\ \E l \in LevelInputs :
          LET level == DefaultParam(l, logLevels.ALERT)
          IN call' = [op |-> "report", in |-> l,
                      out |-> [level |-> level, sinks |-> ConsoleSendLog(level),
                               rep |-> "resolved", fb |-> 0]]
    /\ UNCHANGED <<transport, mgrVars, broker, closeVars, msgs, initVars>>

\* ------------------------------------------------------------------ the manager used directly

Init ==
    /\ transport = "amqp"
    /\ MgrInit
    /\ initSt = "none"
    /\ initLoop = 0
    /\ initLogged = FALSE
    /\ call = NoCall

LoopStep ==
    \/ \E l \in Loops : AmqpConnectOk(l)
    \/ \E l \in Loops : AmqpConnectFail(l)
    \/ \E l \in Loops : CreateChannelOk(l)
    \/ \E l \in Loops : CreateChannelFail(l)
    \/ \E l \in Loops : AssertQueueOk(l)
    \/ \E l \in Loops : AssertQueueFail(l)
    \/ \E l \in Loops : RetryTimer(l)

Environment ==
    \/ \E c \in Conns : OnError(c)
    \/ \E c \in Conns : OnClose(c)
    \/ \E i \in Msgs : Ack(i)
    \/ \E i \in Msgs : Nack(i)
    \/ BrokerUp
    \/ BrokerDown

Next ==
    \/ connect
    \/ \E i \in Msgs : sendMessage(i)
    \/ close
    \/ ChannelCloseSettles
    \/ ConnectionCloseOk
    \/ LoopStep
    \/ Environment

Spec == Init /\ [][Next]_vars

\* ------------------------------------------------------------------ the Logger and its transport

LoggerInit ==
    /\ transport \in {"http", "amqp", "console"}
    /\ MgrInit
    /\ initSt = "none"
    /\ initLoop = 0
    /\ initLogged = FALSE
    /\ call = NoCall

LoggerNext ==
    \/ init
    \/ InitTimeout
    \/ \E i \in Msgs : report(i)
    \/ \E i \in Msgs : HttpOk(i)
    \/ \E i \in Msgs : HttpFail(i)
    \/ LoopStep
    \/ Environment

LoggerSpec == LoggerInit /\ [][LoggerNext]_vars

\* The synchronous part of the Logger: construction, record building, the
\* console transport and error classification.
CallNext ==
    \/ constructor
    \/ BuildRecord
    \/ ConsoleReport
    \/ error

CallInit == LoggerInit /\ broker = "up"

CallSpec == CallInit /\ [][CallNext]_vars

\* ------------------------------------------------------------------ claims

\* C1: at any time at most one retry loop of the manager is running, whoever
\* called connect() (init(), the user, an 'error' or 'close' observer).
C1_AtMostOneLoop == Cardinality(ActiveLoops) <= 1

\* C2: the promise returned by report() never rejects and report() never
\* throws, whatever the transport's send does; once the send has settled,
\* either way, the promise is resolved.
C2_ReportNeverFails ==
    \A i \in Msgs :
        msgs[i].op = "report" =>
            /\ msgs[i].rep \in {"pending", "resolved"}
            /\ msgs[i].st \in {"resolved", "rejected"} => msgs[i].rep = "resolved"

\* C2 witness: a report over the queue transport whose send was rejected has
\* resolved.
C2_Witness ==
    /\ transport = "amqp"
    /\ \E i \in Msgs :
          msgs[i].op = "report" /\ msgs[i].st = "rejected" /\ msgs[i].rep = "resolved"

\* The connect() invocation l is the only one made so far.
OnlyCall(l) == \A k \in Loops \ {l} : loops[k].pc = "unused"

\* C3: for a single connect() call started while Disconnected: when N attempts
\* have failed, exactly N attempts have been made and N - 1 delays have passed
\* (N and N waits once the next attempt runs); a new attempt starts only out
\* of the delay that follows a failure; the state is not Connected while that
\* loop has not succeeded; and it is Connected when the loop's assertQueue()
\* has succeeded.  Counts are exact up to MaxAttempt.
C3_SingleLoopRetries ==
    /\ [](\A l \in Loops :
            (OnlyCall(l) /\ loops[l].pc \in RunningPc) =>
                /\ ~isConnected
                /\ loops[l].pc = "waiting" /\ loops[l].fails <= MaxAttempt =>
                      /\ loops[l].tries = loops[l].fails
                      /\ loops[l].attempt = loops[l].fails - 1
                /\ loops[l].pc # "waiting" /\ loops[l].fails < MaxAttempt =>
                      /\ loops[l].tries = loops[l].fails + 1
                      /\ loops[l].attempt = loops[l].fails)
    /\ [][\A l \in Loops :
            OnlyCall(l) =>
                /\ (loops[l].pc # "connecting" /\ loops'[l].pc = "connecting") =>
                       \/ loops[l].pc = "unused"
                       \/ loops[l].pc = "waiting" /\ loops[l].fails >= 1
                /\ (loops[l].pc \in RunningPc /\ loops'[l].pc = "done") => isConnected']_vars

\* C3 witness: the only connect() call has failed MaxAttempt times, has waited
\* after each failure and is in its next attempt.
C3_Witness ==
    /\ OnlyCall(1)
    /\ loops[1].pc = "asserting"
    /\ loops[1].fails = MaxAttempt
    /\ loops[1].tries = MaxAttempt + 1

\* C4: a sendMessage() call made while the manager is not Connected is
\* rejected; it is not put on a channel.
C4_SendRequiresConnected ==
    [][\A i \in Msgs :
          (msgs[i].op = "none" /\ msgs'[i].op = "sendMessage" /\ ~isConnected) =>
              msgs'[i].st = "rejected"]_vars

\* C5: the promise of sendMessage() is not resolved by the call; while pending
\* it is resolved only by the broker's positive confirmation, and rejected
\* only by a negative confirmation or by the end of its channel; once settled
\* it stays as it is.
C5_SendAwaitsConfirm ==
    [][\A i \in Msgs :
          /\ (msgs[i].op = "none" /\ msgs'[i].op = "sendMessage") =>
                 msgs'[i].st \in {"pending", "rejected"}
          /\ (msgs[i].st = "pending" /\ msgs'[i].st = "resolved") => Ack(i)
          /\ (msgs[i].st = "pending" /\ msgs'[i].st = "rejected") =>
                 Nack(i) \/ conns'[msgs[i].ch].ch = "closed"
          /\ msgs[i].st \in {"resolved", "rejected"} => msgs'[i] = msgs[i]]_vars

\* C5 witness: a sendMessage() promise that was pending is resolved.
C5_Witness ==
    \E i \in Msgs : msgs[i].op = "sendMessage" /\ msgs[i].st = "resolved"

\* C6: when the manager is Connected and the connection it holds ends with an
\* 'error' or a 'close' event, the state leaves Connected in that step and a
\* new connect() invocation enters the loop in that step.
C6_LossStartsReconnect ==
    [][\A c \in Conns :
          (isConnected /\ connection = c /\ conns[c].st \in {"open", "closing"}
             /\ conns'[c].st = "closed") =>
              /\ ~isConnected'
              /\ \E l \in Loops : loops[l].pc = "unused" /\ loops'[l].pc = "connecting"]_vars

\* C8: connect() called while Connected does nothing: no attempt is started,
\* no observer is registered, and isConnected, the held connection and the held
\* channel stay as they are.
C8_ConnectIdempotent ==
    [][(isConnected /\ connect) =>
          /\ UNCHANGED <<isConnected, connection, channel, conns>>
          /\ ActiveLoops' = ActiveLoops
          /\ \A l \in ActiveLoops : loops'[l] = loops[l]]_vars

\* C8 witness: a connect() invocation has returned at the guard and the manager
\* is Connected.
C8_Witness ==
    /\ isConnected
    /\ \E l \in Loops : loops[l].pc = "noop"

\* C9: close() clears isConnected whatever the state was; and when the
\* closing of the channel fails, close() still does not reject and still asks
\* the held connection, if it is open, to close.
C9_CloseBestEffort ==
    [][/\ close => ~isConnected'
       /\ (close /\ channel # 0 /\ ~ChannelOpen(channel)) =>
              /\ closePc' # "rejected"
              /\ conns[connection].st = "open" => conns'[connection].st = "closing"
       /\ (ChannelCloseSettles /\ conns[closeRef].ch # "closing") =>
              closePc' # "rejected"]_vars

\* C10: init() never rejects.  Over the queue transport it resolves when its
\* timeout fires although connect() has not returned: the timeout is logged,
\* the connect() invocation goes on as it was, and a report() whose send has
\* settled is resolved even with no connection.  Over the http and console
\* transports init() resolves at once, logs nothing and no connect() is called.
C10_InitResolves ==
    /\ [](/\ initSt # "rejected"
          /\ initLogged => initSt = "resolved"
          /\ transport # "amqp" =>
                /\ initSt \in {"none", "resolved"}
                /\ ~initLogged
                /\ \A l \in Loops : loops[l].pc = "unused"
                /\ \A c \in Conns : conns[c].st = "free"
          /\ \A i \in Msgs :
                (msgs[i].op = "report" /\ msgs[i].st # "pending") => msgs[i].rep = "resolved")
    /\ [][(initSt = "pending" /\ InitTimeout) =>
              /\ initSt' = "resolved"
              /\ initLogged'
              /\ loops[initLoop].pc \in RunningPc
              /\ loops' = loops]_vars

\* C10 witness: over the queue transport init() has resolved by its timeout,
\* its connect() invocation is still retrying, there is no channel yet and a
\* report() made in that state has resolved.
C10_Witness ==
    /\ transport = "amqp"
    /\ initSt = "resolved"
    /\ initLogged
    /\ loops[initLoop].pc = "waiting"
    /\ channel = 0
    /\ \E i \in Msgs : msgs[i].op = "report" /\ msgs[i].rep = "resolved"

\* C11: every report() call has made exactly one call of its transport's
\* send; the fallback sink holds exactly one entry of it when that send has
\* failed, and none while the send is pending or when it has succeeded; the
\* entry is there when the promise of report() resolves, and the promise does
\* not resolve before the send has settled.
C11_OneSendOneFallback ==
    \A i \in Msgs :
        msgs[i].op = "report" =>
            /\ msgs[i].sent = 1
            /\ msgs[i].fb = IF msgs[i].st = "rejected" THEN 1 ELSE 0
            /\ msgs[i].rep = "resolved" <=> msgs[i].st \in {"resolved", "rejected"}

\* C11 witness: the POST of an http report has failed: one fallback entry, and
\* the report has resolved.
C11_Witness ==
    /\ transport = "http"
    /\ \E i \in Msgs :
          /\ msgs[i].op = "report" /\ msgs[i].sent = 1 /\ msgs[i].st = "rejected"
          /\ msgs[i].fb = 1 /\ msgs[i].rep = "resolved"

\* C12: error() never throws to its caller, whatever error-like value it is
\* given; and for a malformed value (null, undefined, or an api, socket, axios
\* or unexpected-api kind whose request or socket is missing) exactly two
\* generic reports are made: the original error, then the classification
\* failure.
C12_ErrorNeverThrows ==
    call.op = "error" =>
        LET e == call.in
            malformed ==
                \/ e.val # "object"
                \/ e.errorType \in {"api", "unexpectedApiErr"} /\ ~e.request
                \/ e.errorType = "axios" /\ ~e.mainRequest
                \/ e.errorType = "socket" /\ e.socket # "ok"
        IN /\ ~call.out.threw
           /\ malformed =>
                 call.out.reports =
                     <<[of |-> "original", path |-> "generic", level |-> Num(logLevels.ERROR)],
                       [of |-> "failure", path |-> "generic", level |-> Num(logLevels.ERROR)]>>

\* C13: error() with an error object whose kind tag is missing, or is not one
\* of the supported kinds, makes exactly one report: the generic report of the
\* original error with severity ERROR; no report of a classification failure.
C13_UnknownKindGeneric ==
    (call.op = "error" /\ call.in.val = "object"
       /\ call.in.errorType \notin {"api", "socket", "axios", "unexpectedApiErr"}) =>
        call.out.reports =
            <<[of |-> "original", path |-> "generic", level |-> Num(logLevels.ERROR)]>>

\* C14: whatever the keys of the extra data, every fixed field of the record
\* built by getLogObject has the value it has with empty extra data.
C14_FixedFieldsKept ==
    call.op = "getLogObject" =>
        \A f \in FixedFields : call.out[f] = [from |-> "fixed", key |-> f]

\* C15: over the console transport, report() with a severity 0 to 7 writes the
\* record once: to the info sink when the severity is 6, to the error sink
\* otherwise; it resolves and writes no fallback entry.
C15_ConsoleRouting ==
    (call.op = "report" /\ call.in # Undefined /\ call.in.n \in 0..7) =>
        /\ call.out.level = call.in
        /\ call.out.sinks.info = IF call.in.n = 6 THEN 1 ELSE 0
        /\ call.out.sinks.error = IF call.in.n = 6 THEN 0 ELSE 1
        /\ call.out.rep = "resolved"
        /\ call.out.fb = 0

\* C15 witness: a report of severity 6 went to the info sink.
C15_Witness ==
    /\ transport = "console"
    /\ call.op = "report"
    /\ call.in = Num(6)
    /\ call.out.sinks = [info |-> 1, error |-> 0]

\* The string x is the word w, in whatever letter case.
SameWord(x, w) == Len(x) = Len(w) /\ \A i \in 1..Len(w) : x[i].l = w[i]

\* C16: the constructor does not throw on the transport value; a valid word
\* in any letter case gives that word in lower case and no warning; every
\* other value, and a missing one, gives console and exactly one warning.
C16_TransportNormalized ==
    call.op = "constructor" =>
        /\ ~call.out.threw
        /\ IF call.in.t = "string" /\ \E w \in ValidTransports : SameWord(call.in.s, w)
           THEN /\ \E w \in ValidTransports :
                      SameWord(call.in.s, w) /\ transport = Join(w)
                /\ call.out.warned = 0
           ELSE /\ transport = "console"
                /\ call.out.warned = 1

\* C16 witness: "AMQP" written in upper case was normalised to amqp without a
\* warning.
C16_Witness ==
    /\ call.op = "constructor"
    /\ call.in = [t |-> "string",
                  s |-> Chars(<<"a", "m", "q", "p">>, <<TRUE, TRUE, TRUE, TRUE>>)]
    /\ transport = "amqp"
    /\ call.out.warned = 0

\* C17: every record handed to a transport has a severity that is an integer
\* in 0..7, whether it comes from report() or from error() and its reporters,
\* and whether or not the error-like value carries a level.
C17_SeverityInScale ==
    LET inScale(l) == l.t = "number" /\ l.n \in 0..7
    IN /\ call.op = "report" => inScale(call.out.level)
       /\ call.op = "error" =>
             \A i \in DOMAIN call.out.reports : inScale(call.out.reports[i].level)

\* C18: the step in which close() completes leaves the manager Disconnected
\* and starts no connect() invocation: the 'close' event of the connection that
\* close() has closed does not bring a retry loop back.
C18_CloseStaysDisconnected ==
    [][(closePc = "connection" /\ closePc' = "resolved") =>
          /\ ~isConnected'
          /\ \A l \in Loops : loops[l].pc = "unused" => loops'[l].pc = "unused"]_vars

\* C19: every connection that is open is the one the manager holds; stated
\* for the behaviours with a single connect() invocation, where no second loop
\* can have opened a connection of its own.
C19_OneOpenConnection ==
    (\E l \in Loops : OnlyCall(l)) =>
        \A c \in Conns : conns[c].st = "open" => c = connection

\* C20: while the manager is Connected on a connection with an open channel
\* and the broker is up, the end of another connection, one it no longer
\* holds, leaves it Connected and starts no connect() invocation.
C20_StaleEventIgnored ==
    [][\A c \in Conns :
          (/\ isConnected /\ broker = "up"
           /\ connection # c /\ channel = connection /\ ChannelOpen(connection)
           /\ conns[c].st # "closed" /\ conns'[c].st = "closed") =>
              /\ isConnected'
              /\ \A l \in Loops : loops[l].pc = "unused" => loops'[l].pc = "unused"]_vars

\* ------------------------------------------------------------------ liveness

\* The steps of connect() invocation l.
LoopOf(l) ==
    \/ AmqpConnectOk(l)
    \/ AmqpConnectFail(l)
    \/ CreateChannelOk(l)
    \/ CreateChannelFail(l)
    \/ AssertQueueOk(l)
    \/ AssertQueueFail(l)
    \/ RetryTimer(l)

\* Node's event loop runs every settled promise's continuation and every
\* expired timer, and amqplib settles each of its promises: no connect()
\* invocation is left waiting for ever on a step that can be taken.  The
\* system is the Logger over its transport: init() makes the first connect()
\* call, the observers make the later ones.
LiveSpec == LoggerSpec /\ \A l \in Loops : WF_vars(LoopOf(l))

\* The broker is up: it accepts connections, up to its limit, and assertions.
Stable == broker = "up"

\* The broker's connection limit is used up and no running loop holds a
\* connection: every further amqp.connect() is refused.
OutOfConns == FreeConns = {} /\ \A l \in ActiveLoops : loops[l].c = 0

\* C7: the loop has no maximum attempt count: a connect() invocation returns
\* only when the manager is Connected, and the delay after a failure is
\* followed by the next attempt while not Connected; so, if from some point on
\* the broker stays up, a running loop leads to Connected, unless the broker
\* refuses every further connection.
C7_RetriesUntilConnected ==
    /\ [][\A l \in Loops :
             /\ (loops[l].pc \in RunningPc /\ loops'[l].pc \notin RunningPc) => isConnected'
             /\ (loops[l].pc = "waiting" /\ loops'[l].pc # "waiting" /\ ~isConnected) =>
                    loops'[l].pc = "connecting"]_vars
    /\ <>[]Stable => ((ActiveLoops # {}) ~> (isConnected \/ OutOfConns))

\* C7 witness: the manager is Connected again, on a second connection, after
\* the first one was lost, by a loop that an observer started.
C7_Witness ==
    /\ isConnected
    /\ conns[1].st = "closed"
    /\ connection = 2
    /\ conns[2].obs = 1
    /\ loops[1].pc = "done"
    /\ loops[2].pc = "done"

====
